---- MODULE Spec2Model ----
(***************************************************************************)
(* A model of gen_repo_tree.py: the directory walk that renders a tree     *)
(* (list_entries, build_tree_lines), the artifact writer and the           *)
(* interactive menu loop.                                                  *)
(*                                                                         *)
(* Text is modelled as the code sees it: a string is a sequence of Unicode *)
(* code points, so that lower-casing, comparison and concatenation are     *)
(* computed and not assumed.                                               *)
(***************************************************************************)
EXTENDS Integers, Sequences, FiniteSets, TLC

\* ------------------------------------------------------------ bounds

\* Most entries (below the root, the artifact apart) in a directory tree.
MaxNodes == 3

\* Most entries in a tree of the menu loop's specification.
MaxLoopNodes == 1

\* Largest depth limit entered; "unlimited" is always among the inputs.
MaxDepth == 2

\* Most symlinks in a tree.
MaxLinks == 1

\* Most directories of a tree whose enumeration fails.
MaxFaults == 1

\* Most menu choices taken in one run of the loop specification.
MaxChoices == 3

\* The interpreter's limit on nested calls of recurse (CPython: 1000 frames),
\* scaled to the trees of the model: no tree of the model nests this deep.
RecursionLimit == 6

\* ------------------------------------------------------------ text

None == -1

PERMISSION_DENIED ==
    <<91, 112, 101, 114, 109, 105, 115, 115, 105, 111, 110, 32,
      100, 101, 110, 105, 101, 100, 93>>          \* "[permission denied]"

SLASH == <<47>>                                    \* "/"

SYMLINK_SUFFIX ==
    <<32, 45, 62, 32, 40, 115, 121, 109, 108, 105, 110, 107, 41>>  \* " -> (symlink)"

LAST_CONNECTOR == <<9492, 9472, 9472, 32>>         \* "└── "
MID_CONNECTOR  == <<9500, 9472, 9472, 32>>         \* "├── "
LAST_PREFIX    == <<32, 32, 32, 32>>               \* "    "
MID_PREFIX     == <<9474, 32, 32, 32>>             \* "│   "

REPO_TXT == <<32, 114, 101, 112, 111, 46, 116, 120, 116>>  \* " repo.txt"

\* The names drawn for directory entries: "a", "A", "B" and the sentinel's text.
name_a == <<97>>
name_A == <<65>>
name_B == <<66>>
NameSet == {name_a, name_A, name_B, PERMISSION_DENIED}

\* os.path.basename(os.path.abspath(root_path)) of the model's root: "proj".
ROOT_NAME == <<112, 114, 111, 106>>

\* str.lower() on one code point (the code points of the model are ASCII
\* letters and punctuation, and box-drawing characters, which have no case).
LowerChar(c) == IF c \in 65..90 THEN c + 32 ELSE c

Lower(s) == [i \in 1..Len(s) |-> LowerChar(s[i])]

\* s < t for two strings: Python's comparison, code point by code point,
\* a proper prefix being smaller.
RECURSIVE StrLess(_, _)
StrLess(s, t) ==
    IF t = <<>> THEN FALSE
    ELSE IF s = <<>> THEN TRUE
    ELSE IF s[1] # t[1] THEN s[1] < t[1]
    ELSE StrLess(Tail(s), Tail(t))

\* "".join(parts)
RECURSIVE Join(_)
Join(parts) ==
    IF parts = <<>> THEN <<>> ELSE parts[1] \o Join(Tail(parts))

\* ------------------------------------------------------------ file system

\* The tree is a function from node ids to entries.  Node Root is the root
\* directory (the current working directory); node ArtifactId is the place
\* of "<root> repo.txt" in the root; kind "none" is an absent entry.
Root == 0
ArtifactId == MaxNodes + 1
NodeIds == 1..ArtifactId

ArtifactName == ROOT_NAME \o REPO_TXT

Absent == [name |-> <<>>, kind |-> "none", parent |-> Root, scan |-> "ok", target |-> None]

Children(fsys, d) ==
    {n \in NodeIds : fsys[n].kind # "none" /\ fsys[n].parent = d}

\* The orders in which os.scandir may yield the children of each directory:
\* one permutation of the node ids, read directory by directory.
Perms(S) ==
    {p \in [1..Cardinality(S) -> S] : \A i, j \in 1..Cardinality(S) : p[i] = p[j] => i = j}

NodeOrders == Perms(NodeIds)

ScanOrders(fsys) ==
    LET dirOf == [n \in NodeIds |-> IF fsys[n].kind = "none" THEN None ELSE fsys[n].parent]
    IN  {[d \in {Root} \cup NodeIds |->
              LET Keep(n) == dirOf[n] = d
              IN  SelectSeq(r, Keep)] : r \in NodeOrders}

\* ------------------------------------------------------------ list_entries

\* e.is_dir(), which follows symlinks: what the link leads to is a directory.
is_dir_following(fsys, n) ==
    LET RECURSIVE End(_)
        End(m) == IF m = None THEN None
                  ELSE IF fsys[m].kind = "link" THEN End(fsys[m].target) ELSE m
    IN  End(n) # None /\ fsys[End(n)].kind = "dir"

\* e.is_dir(follow_symlinks=False)
is_dir(fsys, n) == fsys[n].kind = "dir"

\* e.is_symlink()
is_symlink(fsys, n) == fsys[n].kind = "link"

\* (e.name, e.is_dir(follow_symlinks=False), e.is_symlink(), e.path)
EntryOf(fsys, n) == <<fsys[n].name, is_dir(fsys, n), is_symlink(fsys, n), n>>

\* The key without .lower(): names compared as they are.
SortKeyCaseSensitive(x) == <<IF x[2] THEN 0 ELSE 1, x[1]>>

\* key=lambda x: (0 if x[1] else 1, x[0].lower())
SortKey(x) == <<IF x[2] THEN 0 ELSE 1, Lower(x[1])>>

KeyLess(k1, k2) ==
    \/ k1[1] < k2[1]
    \/ k1[1] = k2[1] /\ StrLess(k1[2], k2[2])

\* list.sort is stable: an entry goes behind every entry whose key is not
\* larger, entries of equal key keeping the order they came in.
RECURSIVE SortEntries(_)
SortEntries(entries) ==
    IF entries = <<>> THEN <<>>
    ELSE LET n      == Len(entries)
             x      == entries[n]
             sorted == SortEntries(SubSeq(entries, 1, n - 1))
             NotAfter(y) == ~KeyLess(SortKey(x), SortKey(y))
             After(y)    == KeyLess(SortKey(x), SortKey(y))
         IN  SelectSeq(sorted, NotAfter) \o <<x>> \o SelectSeq(sorted, After)

SENTINEL == <<PERMISSION_DENIED, FALSE, FALSE, None>>

\* The directory os.scandir(path) opens: the OS follows a symlink at path
\* (None: the link leads nowhere).  A symlink of the model points at the
\* root or at an earlier entry, so following ends.
RECURSIVE Resolve(_, _)
Resolve(fsys, path) ==
    IF path = None THEN None
    ELSE IF fsys[path].kind = "link" THEN Resolve(fsys, fsys[path].target)
    ELSE path

\* list_entries without its except clause: PermissionError leaves it as
\* any OSError does.
list_entries_uncaught(fsys, order, path) ==
    LET dir == Resolve(fsys, path)
    IN  IF dir = None \/ fsys[dir].kind # "dir" \/ fsys[dir].scan # "ok"
        THEN [exc |-> "OSError", entries |-> <<>>]
        ELSE [exc |-> "",
              entries |-> SortEntries([i \in 1..Len(order[dir]) |->
                                          EntryOf(fsys, order[dir][i])])]

\* list_entries(path): [exc, entries].  os.scandir raises PermissionError
\* (caught here) or another OSError (not caught): FileNotFoundError,
\* NotADirectoryError, an I/O error.
list_entries(fsys, order, path) ==
    LET dir == Resolve(fsys, path)
    IN  IF dir = None \/ fsys[dir].kind # "dir"
        THEN [exc |-> "OSError", entries |-> <<>>]
        ELSE IF fsys[dir].scan = "denied"
        THEN [exc |-> "", entries |-> <<SENTINEL>>]
        ELSE IF fsys[dir].scan = "oserror"
        THEN [exc |-> "OSError", entries |-> <<>>]
        ELSE [exc |-> "",
              entries |-> SortEntries([i \in 1..Len(order[dir]) |->
                                          EntryOf(fsys, order[dir][i])])]

\* ------------------------------------------------------------ build_tree_lines

Connector(is_last) == IF is_last THEN LAST_CONNECTOR ELSE MID_CONNECTOR

\* The prefix token with the two cases exchanged.
NextPrefixSwapped(is_last) == IF is_last THEN MID_PREFIX ELSE LAST_PREFIX

NextPrefix(is_last) == IF is_last THEN LAST_PREFIX ELSE MID_PREFIX

\* display_name of one entry
DisplayName(name, isdir, islink) ==
    (name \o (IF isdir /\ name # PERMISSION_DENIED THEN SLASH ELSE <<>>))
         \o (IF islink THEN SYMLINK_SUFFIX ELSE <<>>)

\* "if is_dir and full_path is not None and name != ..." : the recursion rule
Descends(name, isdir, full_path) ==
    isdir /\ full_path # None /\ name # PERMISSION_DENIED

\* The limit tested with > : one level too many is listed.
DepthReachedLate(max_depth, depth) == max_depth # None /\ depth > max_depth

\* "if max_depth is not None and depth >= max_depth: return"
DepthReached(max_depth, depth) == max_depth # None /\ depth >= max_depth

RECURSIVE recurse(_, _, _, _, _, _)
RECURSIVE ForEntries(_, _, _, _, _, _, _)

\* The for loop of recurse from entry idx on: [exc, lines], the lines it
\* appends, in order, or the exception that ends it.
ForEntries(fsys, order, max_depth, entries, idx, prefix_parts, depth) ==
    IF idx > Len(entries) THEN [exc |-> "", lines |-> <<>>]
    ELSE LET e       == entries[idx]
             is_last == (idx = Len(entries))
             line    == (Join(prefix_parts) \o Connector(is_last))
                            \o DisplayName(e[1], e[2], e[3])
             sub     == IF Descends(e[1], e[2], e[4])
                        THEN recurse(fsys, order, max_depth, e[4],
                                     Append(prefix_parts, NextPrefix(is_last)), depth + 1)
                        ELSE [exc |-> "", lines |-> <<>>]
         IN  IF sub.exc # "" THEN [exc |-> sub.exc, lines |-> <<>>]
             ELSE LET rest == ForEntries(fsys, order, max_depth, entries, idx + 1,
                                         prefix_parts, depth)
                  IN  IF rest.exc # "" THEN [exc |-> rest.exc, lines |-> <<>>]
                      ELSE [exc |-> "", lines |-> (<<line>> \o sub.lines) \o rest.lines]

recurse(fsys, order, max_depth, path, prefix_parts, depth) ==
    IF depth >= RecursionLimit THEN [exc |-> "RecursionError", lines |-> <<>>]
    ELSE IF DepthReached(max_depth, depth) THEN [exc |-> "", lines |-> <<>>]
    ELSE LET listed == list_entries(fsys, order, path)
         IN  IF listed.exc # "" THEN [exc |-> listed.exc, lines |-> <<>>]
             ELSE ForEntries(fsys, order, max_depth, listed.entries, 1, prefix_parts, depth)

\* build_tree_lines(root_path, max_depth): [exc, lines]
build_tree_lines(fsys, order, max_depth) ==
    LET walked == recurse(fsys, order, max_depth, Root, <<>>, 0)
    IN  IF walked.exc # "" THEN [exc |-> walked.exc, lines |-> <<>>]
        ELSE [exc |-> "", lines |-> <<fsys[Root].name \o SLASH>> \o walked.lines]

\* ------------------------------------------------------------ trees

\* The names in the order that numbers siblings (any fixed order would do).
NameOrder == <<name_a, name_A, name_B, PERMISSION_DENIED>>

NameIndex(nm) == CHOOSE i \in 1..Len(NameOrder) : NameOrder[i] = nm

Links(fsys) == {i \in NodeIds : fsys[i].kind = "link"}

Faults(fsys) == {i \in {Root} \cup NodeIds : fsys[i].scan # "ok"}

\* The entries that may be added as node n of tree s, in directory p.  Trees
\* that differ only in the numbering of their nodes behave alike (the walk
\* sees names and kinds, never node ids), so one numbering of each tree is
\* built: parents do not decrease with the node id, and the siblings of a
\* directory are numbered in the order of NameOrder.  Siblings have distinct
\* names; a symlink points at the root (an ancestor of the link: a cycle) or
\* at the entry numbered before it (a file, or a directory beside or
\* above the link).
EntriesAt(s, n, p) ==
    LET names == {nm \in NameSet :
                     n = 1 \/ s[n - 1].parent # p
                           \/ NameIndex(s[n - 1].name) < NameIndex(nm)}
        scans == IF Cardinality(Faults(s)) < MaxFaults
                 THEN {"ok", "denied", "oserror"} ELSE {"ok"}
        targets == IF Cardinality(Links(s)) < MaxLinks
                   THEN {Root} \cup ({n - 1} \ {Root}) ELSE {}
    IN  {[name |-> nm, kind |-> "dir", parent |-> p, scan |-> sc, target |-> None] :
             nm \in names, sc \in scans}
        \cup {[name |-> nm, kind |-> "file", parent |-> p, scan |-> "ok", target |-> None] :
             nm \in names}
        \cup {[name |-> nm, kind |-> "link", parent |-> p, scan |-> "ok", target |-> t] :
             nm \in names, t \in targets}

NewEntries(s, n) ==
    LET lo == IF n = 1 THEN Root ELSE s[n - 1].parent
    IN  UNION {EntriesAt(s, n, p) : p \in {q \in lo..(n - 1) : s[q].kind = "dir"}}

RootEntries ==
    {[name |-> ROOT_NAME, kind |-> "dir", parent |-> None, scan |-> sc, target |-> None] :
        sc \in IF MaxFaults > 0 THEN {"ok", "denied", "oserror"} ELSE {"ok"}}

ArtifactFile ==
    [name |-> ArtifactName, kind |-> "file", parent |-> Root, scan |-> "ok", target |-> None]

\* Trees of exactly n entries (the artifact absent), built entry by entry.
RECURSIVE TreesOf(_)
TreesOf(n) ==
    IF n = 0
    THEN {[i \in {Root} \cup NodeIds |-> IF i = Root THEN r ELSE Absent] : r \in RootEntries}
    ELSE UNION {{[s EXCEPT ![n] = e] : e \in NewEntries(s, n)} : s \in TreesOf(n - 1)}

Trees(n) == UNION {TreesOf(k) : k \in 0..n}

Depths == {None} \cup 0..MaxDepth

\* ------------------------------------------------------------ prompts

\* str.strip(): leading and trailing white space removed.
IsSpace(c) == c \in (9..13) \cup (28..32)

RECURSIVE LStrip(_)
LStrip(s) == IF s # <<>> /\ IsSpace(s[1]) THEN LStrip(Tail(s)) ELSE s

RECURSIVE RStrip(_)
RStrip(s) ==
    IF s # <<>> /\ IsSpace(s[Len(s)]) THEN RStrip(SubSeq(s, 1, Len(s) - 1)) ELSE s

Strip(s) == RStrip(LStrip(s))

IsDigit(c) == c \in 48..57

\* int(s) for a string of decimal digits
RECURSIVE DigitsValue(_)
DigitsValue(s) ==
    IF s = <<>> THEN 0 ELSE 10 * DigitsValue(SubSeq(s, 1, Len(s) - 1)) + (s[Len(s)] - 48)

\* int(s): [ok, n]; ok is FALSE where int raises ValueError.  An optional
\* sign, then decimal digits.
ParseInt(s) ==
    LET signed == s # <<>> /\ s[1] \in {43, 45}
        digits == IF signed THEN Tail(s) ELSE s
    IN  IF digits = <<>> \/ \E i \in 1..Len(digits) : ~IsDigit(digits[i])
        THEN [ok |-> FALSE, n |-> 0]
        ELSE [ok |-> TRUE,
              n |-> IF signed /\ s[1] = 45 THEN 0 - DigitsValue(digits) ELSE DigitsValue(digits)]

\* parse_depth(s): [depth, warned]; warned where "Invalid depth. Using
\* unlimited." is printed.
parse_depth(s) ==
    LET t == Strip(s)
        v == ParseInt(t)
    IN  IF t = <<>> THEN [depth |-> None, warned |-> FALSE]
        ELSE IF v.ok /\ v.n >= 0 THEN [depth |-> v.n, warned |-> FALSE]
        ELSE [depth |-> None, warned |-> TRUE]

\* ans in ("y", "yes") of prompt_yes_no
IsYes(line) == Lower(Strip(line)) \in {<<121>>, <<121, 101, 115>>}

\* input(prompt) gives a line, or raises EOFError (the stream is closed) or
\* KeyboardInterrupt.
InputFailures == {"EOFError", "KeyboardInterrupt"}

\* An except clause that names EOFError alone.
CaughtEOFOnly(exc) == exc = "EOFError"

\* except (EOFError, KeyboardInterrupt) in prompt_yes_no and input_line
Caught(exc) == exc \in {"EOFError", "KeyboardInterrupt"}

\* The lines typed at the menu: "q", " Q ", "h", "1", "2", "x", "".
MenuLines == {<<113>>, <<32, 81, 32>>, <<104>>, <<49>>, <<50>>, <<120>>, <<>>}

\* The lines typed for the depth: "", "-1", "x", " 1 " and each limit.
DepthLines ==
    {<<>>, <<45, 49>>, <<120>>, <<32, 49, 32>>} \cup {<<48 + n>> : n \in 0..MaxDepth}

\* The lines typed at "Save txt?": "y", " YES ", "n", "".
SaveLines == {<<121>>, <<32, 89, 69, 83, 32>>, <<110>>, <<>>}

\* The lines typed for the paths: "", " ", "a", "zz", "a, zz" and "'a'".
PathLines ==
    {<<>>, <<32>>, name_a, <<122, 122>>, <<97, 44, 32, 122, 122>>, <<39, 97, 39>>}

\* ------------------------------------------------------------ state

VARIABLES
    fs,            \* the directory tree under the current working directory
    root_writable, \* whether entries can be created in and removed from it
    artifact_text, \* the text of "<root> repo.txt" (what write_output wrote)
    pc,            \* where the program stands: the prompt it waits at
    exit_status,   \* the status the process ended with (None: running)
    printed,       \* what the latest step printed
    max_depth,     \* the depth limit of the latest build (None: unlimited)
    result,        \* what the latest build_tree_lines gave: [exc, lines]
    choices,       \* how many menu choices were taken
    inp,           \* history: the latest input(): its prompt, and the line
                   \*          it gave or the exception it raised
    existed,       \* history: whether the artifact was there when the latest
                   \*          generate action began
    prev,          \* history: the build before the latest one
    scanned        \* history: the order in which the OS yielded each
                   \*          directory's children to the latest build

vars == <<fs, root_writable, artifact_text, pc, exit_status, printed, max_depth,
          result, choices, inp, existed, prev, scanned>>

NoResult == [exc |-> "none", lines |-> <<>>]
NoPrev == [max_depth |-> None, result |-> NoResult, kept |-> FALSE]
NoInput == [prompt |-> "", exc |-> "", line |-> <<>>]
NoScan == [d \in {Root} \cup NodeIds |-> <<>>]

ArtifactExists(fsys) == fsys[ArtifactId].kind # "none"

\* ------------------------------------------------------------ write_output

NEWLINE == <<10>>

\* "\n".join(lines) + "\n"
RECURSIVE JoinLines(_)
JoinLines(lines) ==
    IF lines = <<>> THEN <<>>
    ELSE IF Len(lines) = 1 THEN lines[1]
    ELSE (lines[1] \o NEWLINE) \o JoinLines(Tail(lines))

FileText(lines) == JoinLines(lines) \o NEWLINE

\* open(outfile, "w") creates the file if it is not there, which the
\* directory must allow.
CanWrite(fsys, writable) == ArtifactExists(fsys) \/ writable

\* os.remove(outfile) needs the directory to allow it.
CanRemove(fsys, writable) == ArtifactExists(fsys) /\ writable

\* ------------------------------------------------------------ the tree alone

TreeInit ==
    /\ fs \in Trees(MaxNodes)
    /\ root_writable = TRUE
    /\ artifact_text = <<>>
    /\ pc = "call"
    /\ exit_status = None
    /\ printed = <<>>
    /\ max_depth = None
    /\ result = NoResult
    /\ choices = 0
    /\ inp = NoInput
    /\ existed = FALSE
    /\ prev = NoPrev
    /\ scanned = NoScan

\* One call build_tree_lines(root_path, max_depth=d), the OS yielding the
\* children of each directory in some order.
BuildTree ==
    /\ pc = "call"
    /\ \E order \in ScanOrders(fs), d \in Depths :
          /\ max_depth' = d
          /\ scanned' = order
          /\ result' = build_tree_lines(fs, order, d)
    /\ pc' = "returned"
    /\ UNCHANGED <<fs, root_writable, artifact_text, exit_status, printed, choices,
                   inp, existed, prev>>

\* A second call on the unchanged tree with the same limit, the OS free to
\* yield the children in another order.
BuildAgain ==
    /\ pc = "returned"
    /\ \E order \in ScanOrders(fs) :
          /\ scanned' = order
          /\ result' = build_tree_lines(fs, order, max_depth)
    /\ prev' = [max_depth |-> max_depth, result |-> result, kept |-> FALSE]
    /\ pc' = "returned again"
    /\ UNCHANGED <<fs, root_writable, artifact_text, exit_status, printed, max_depth,
                   choices, inp, existed>>

TreeNext == BuildTree \/ BuildAgain

TreeSpec == TreeInit /\ [][TreeNext]_vars

\* ------------------------------------------------------------ the menu loop

\* The trees the loop starts in: the artifact there or not (left by an
\* earlier session), the directory writable or not.
LoopTrees ==
    {[t EXCEPT ![ArtifactId] = a] : t \in Trees(MaxLoopNodes), a \in {Absent, ArtifactFile}}

Init ==
    /\ fs \in LoopTrees
    /\ root_writable \in BOOLEAN
    /\ artifact_text = <<>>
    /\ pc = "menu"
    /\ exit_status = None
    /\ printed = <<"menu">>
    /\ max_depth = None
    /\ result = NoResult
    /\ choices = 0
    /\ inp = NoInput
    /\ existed = FALSE
    /\ prev = NoPrev
    /\ scanned = NoScan

\* choice = input_line("> ").strip().lower()
Choice(line) == Lower(Strip(line))

Prompts == {"menu", "depth", "paths", "save"}

\* input() fails at a prompt: prompt_yes_no and input_line print "Aborted."
\* and sys.exit(1) raises SystemExit, which no handler of the program
\* catches (except Exception does not), so the process ends with status 1.
\* An exception they do not catch ends the process with a traceback.
InputFails(exc) ==
    /\ printed' = IF Caught(exc) THEN <<"Aborted.">> ELSE <<"Traceback">>
    /\ exit_status' = 1
    /\ pc' = "exited"

Abort ==
    /\ pc \in Prompts
    /\ \E exc \in InputFailures :
          /\ InputFails(exc)
          /\ inp' = [prompt |-> pc, exc |-> exc, line |-> <<>>]
    /\ UNCHANGED <<fs, root_writable, artifact_text, max_depth, result, choices,
                   existed, prev, scanned>>

\* What every menu choice does: one more choice taken, the line recorded.
Chosen(line) ==
    /\ choices' = choices + 1
    /\ inp' = [prompt |-> "menu", exc |-> "", line |-> line]
    /\ UNCHANGED <<fs, root_writable, artifact_text, max_depth, result, existed, prev,
                   scanned>>

\* choice == "q"
ChooseQuit ==
    /\ pc = "menu" /\ choices < MaxChoices
    /\ \E line \in MenuLines :
          /\ Choice(line) = <<113>>
          /\ Chosen(line)
    /\ printed' = <<"Goodbye!">>
    /\ exit_status' = 0
    /\ pc' = "exited"

\* choice == "h": show_help(), then the menu again
ChooseHelp ==
    /\ pc = "menu" /\ choices < MaxChoices
    /\ \E line \in MenuLines :
          /\ Choice(line) = <<104>>
          /\ Chosen(line)
    /\ printed' = <<"help", "menu">>
    /\ UNCHANGED <<exit_status, pc>>

\* choice == "1": action_generate_tree() starts and asks for the depth
ChooseGenerate ==
    /\ pc = "menu" /\ choices < MaxChoices
    /\ \E line \in MenuLines :
          /\ Choice(line) = <<49>>
          /\ Chosen(line)
    /\ printed' = <<>>
    /\ pc' = "depth"
    /\ UNCHANGED exit_status

\* choice == "2": action_open_files_vscode() starts and asks for the paths
ChooseOpen ==
    /\ pc = "menu" /\ choices < MaxChoices
    /\ \E line \in MenuLines :
          /\ Choice(line) = <<50>>
          /\ Chosen(line)
    /\ printed' = <<>>
    /\ pc' = "paths"
    /\ UNCHANGED exit_status

\* any other choice
ChooseUnknown ==
    /\ pc = "menu" /\ choices < MaxChoices
    /\ \E line \in MenuLines :
          /\ Choice(line) \notin {<<113>>, <<104>>, <<49>>, <<50>>}
          /\ Chosen(line)
    /\ printed' = <<"Unknown option. Choose h, 1, 2, or q.", "menu">>
    /\ UNCHANGED <<exit_status, pc>>

\* action_generate_tree from the depth's line to its next prompt or its
\* return: parse_depth, build_tree_lines, then write_output, both inside
\* try ... except Exception, then open_with_default_app, which opens the
\* file (opened) or reports that it could not.
Generate(line, order, opened) ==
    LET parsed == parse_depth(line)
        warn   == IF parsed.warned THEN <<"Invalid depth. Using unlimited.">> ELSE <<>>
        built  == build_tree_lines(fs, order, parsed.depth)
    IN  /\ max_depth' = parsed.depth
        /\ existed' = ArtifactExists(fs)
        /\ IF built.exc # ""
           THEN \* build_tree_lines raised: nothing is written
                /\ result' = built
                /\ printed' = warn \o <<"Error while generating or writing tree", "menu">>
                /\ pc' = "menu"
                /\ UNCHANGED <<fs, artifact_text>>
           ELSE IF ~CanWrite(fs, root_writable)
           THEN \* open(outfile, "w") raised
                /\ result' = built
                /\ printed' = warn \o <<"Error while generating or writing tree", "menu">>
                /\ pc' = "menu"
                /\ UNCHANGED <<fs, artifact_text>>
           ELSE /\ result' = built
                /\ fs' = [fs EXCEPT ![ArtifactId] = ArtifactFile]
                /\ artifact_text' = FileText(built.lines)
                /\ printed' = (warn \o <<"Done! Wrote repo tree. Opening...">>)
                                \o (IF opened THEN <<>>
                                    ELSE <<"Could not open file automatically">>)
                /\ pc' = "save"

DepthInput ==
    /\ pc = "depth"
    /\ \E order \in ScanOrders(fs), line \in DepthLines, opened \in BOOLEAN :
          /\ Generate(line, order, opened)
          /\ scanned' = order
          /\ inp' = [prompt |-> "depth", exc |-> "", line |-> line]
    /\ UNCHANGED <<root_writable, exit_status, choices, prev>>

\* action_generate_tree from the answer to "Save txt? (y/n): " to its return
SaveInput ==
    /\ pc = "save"
    /\ \E line \in SaveLines :
          /\ inp' = [prompt |-> "save", exc |-> "", line |-> line]
          /\ prev' = [max_depth |-> max_depth, result |-> result, kept |-> IsYes(line)]
          /\ IF IsYes(line)
             THEN /\ printed' = <<"File saved.", "menu">>
                  /\ UNCHANGED <<fs, artifact_text>>
             ELSE IF CanRemove(fs, root_writable)
             THEN /\ fs' = [fs EXCEPT ![ArtifactId] = Absent]
                  /\ artifact_text' = <<>>
                  /\ printed' = <<"File deleted.", "menu">>
             ELSE /\ printed' = <<"Could not delete file", "menu">>
                  /\ UNCHANGED <<fs, artifact_text>>
    /\ pc' = "menu"
    /\ UNCHANGED <<root_writable, exit_status, max_depth, result, choices, existed,
                   scanned>>

\* raw.split(",")
RECURSIVE SplitComma(_)
SplitComma(s) ==
    IF \A i \in 1..Len(s) : s[i] # 44 THEN <<s>>
    ELSE LET i == CHOOSE j \in 1..Len(s) : s[j] = 44 /\ \A k \in 1..(j - 1) : s[k] # 44
         IN  <<SubSeq(s, 1, i - 1)>> \o SplitComma(SubSeq(s, i + 1, Len(s)))

\* str.strip(chars) for one character
RECURSIVE StripChar(_, _)
StripChar(s, c) ==
    IF s # <<>> /\ s[1] = c THEN StripChar(Tail(s), c)
    ELSE IF s # <<>> /\ s[Len(s)] = c THEN StripChar(SubSeq(s, 1, Len(s) - 1), c)
    ELSE s

\* p.strip().strip('"').strip("'")
CleanPart(part) == StripChar(StripChar(Strip(part), 34), 39)

\* [... for p in parts if p]: the names typed, relative paths of one
\* component, which normpath and join leave as entries of the root.
PathParts(raw) ==
    LET parts == SplitComma(raw)
        NonEmpty(q) == q # <<>>
    IN  SelectSeq([i \in 1..Len(parts) |-> CleanPart(parts[i])], NonEmpty)

\* os.path.exists of such a path: an entry of the root with that name.
PathExists(fsys, p) == \E n \in Children(fsys, Root) : fsys[n].name = p

\* open_in_vscode(paths): what it prints.
open_in_vscode(fsys, paths, code_found) ==
    LET Here(q)    == PathExists(fsys, q)
        Missing(q) == ~PathExists(fsys, q)
        existing   == SelectSeq(paths, Here)
        missing    == SelectSeq(paths, Missing)
    IN  IF ~code_found THEN <<"VS Code command 'code' not found on PATH.">>
        ELSE [i \in 1..Len(missing) |-> "Ignored (not found)"]
                \o (IF existing = <<>> THEN <<"No valid paths to open in VS Code.">>
                    ELSE <<"Opened in VS Code">>)

\* action_open_files_vscode from the paths' line to its return; whether the
\* "code" command is on PATH is the environment's.
PathsInput ==
    /\ pc = "paths"
    /\ \E line \in PathLines, code_found \in BOOLEAN :
          /\ inp' = [prompt |-> "paths", exc |-> "", line |-> line]
          /\ printed' =
                IF Strip(line) = <<>> THEN <<"No paths provided.", "menu">>
                ELSE open_in_vscode(fs, PathParts(Strip(line)), code_found) \o <<"menu">>
    /\ pc' = "menu"
    /\ UNCHANGED <<fs, root_writable, artifact_text, exit_status, max_depth, result,
                   choices, existed, prev, scanned>>

Next ==
    \/ ChooseQuit
    \/ ChooseHelp
    \/ ChooseGenerate
    \/ ChooseOpen
    \/ ChooseUnknown
    \/ DepthInput
    \/ SaveInput
    \/ PathsInput
    \/ Abort

Spec == Init /\ [][Next]_vars

\* ============================================================ properties

\* A build_tree_lines call has returned a line list.
Built == pc \in {"returned", "returned again"} /\ result.exc = ""

\* ---- reading a rendered line back

EndsWith(s, suffix) ==
    Len(s) >= Len(suffix) /\ SubSeq(s, Len(s) - Len(suffix) + 1, Len(s)) = suffix

Token(line, i) == SubSeq(line, 4 * (i - 1) + 1, 4 * i)

\* The nesting level a line shows: the place of its connector, after prefix
\* tokens only (0: the line has no such shape).
LineLevel(line) ==
    LET fits == {l \in 1..(Len(line) \div 4) :
                    /\ Token(line, l) \in {LAST_CONNECTOR, MID_CONNECTOR}
                    /\ \A j \in 1..(l - 1) : Token(line, j) \in {LAST_PREFIX, MID_PREFIX}}
    IN  IF fits = {} THEN 0 ELSE CHOOSE l \in fits : TRUE

\* What follows the connector: the display name.
LineText(line) == SubSeq(line, 4 * LineLevel(line) + 1, Len(line))

\* ---- the tree, entry by entry

Present == {n \in NodeIds : fs[n].kind # "none"}

RECURSIVE LevelOf(_)
LevelOf(n) == IF n = Root THEN 0 ELSE 1 + LevelOf(fs[n].parent)

\* The directories above an entry, the root among them.
RECURSIVE Above(_)
Above(n) == IF n = Root THEN {} ELSE {fs[n].parent} \cup Above(fs[n].parent)

\* A directory whose children the walk does list: a real directory that
\* enumerates, and whose name is not the sentinel's text (the walk does not
\* enter an entry of that name).
Enumerated(d) ==
    /\ fs[d].kind = "dir"
    /\ fs[d].scan = "ok"
    /\ d = Root \/ fs[d].name # PERMISSION_DENIED

WithinDepth(level) == max_depth = None \/ level <= max_depth

\* The entries at most max_depth levels below the root that are reachable
\* through real, enumerated directories.
Reachable ==
    {n \in Present : WithinDepth(LevelOf(n)) /\ \A d \in Above(n) : Enumerated(d)}

\* The directories the walk comes to list and cannot, for want of access.
DeniedListed ==
    {d \in {Root} \cup Reachable :
        /\ fs[d].kind = "dir"
        /\ fs[d].scan = "denied"
        /\ d = Root \/ fs[d].name # PERMISSION_DENIED
        /\ WithinDepth(LevelOf(d) + 1)}

\* ---- the walk, position by position

\* A position <<i1, ..., ik>> is the ik-th entry of the sorted listing of the
\* entry at <<i1, ..., i(k-1)>>; <<>> is the root.
Listing(d) == list_entries(fs, scanned, d).entries

Front(p) == SubSeq(p, 1, Len(p) - 1)

RECURSIVE EntryAt(_)
EntryAt(p) ==
    LET d == IF Len(p) = 1 THEN Root ELSE EntryAt(Front(p))[4]
    IN  Listing(d)[p[Len(p)]]

IsLastAt(p) ==
    LET d == IF Len(p) = 1 THEN Root ELSE EntryAt(Front(p))[4]
    IN  p[Len(p)] = Len(Listing(d))

\* The recursion rule, on the facts of the tree: a real directory (no
\* symlink, no sentinel), the depth limit not reached.
Entered(e, level) ==
    /\ e[4] # None
    /\ fs[e[4]].kind = "dir"
    /\ e[1] # PERMISSION_DENIED
    /\ max_depth = None \/ level < max_depth

RECURSIVE VisitedBelow(_, _)
VisitedBelow(p, d) ==
    LET L == Listing(d)
    IN  UNION {{Append(p, i)} \cup
                   (IF Entered(L[i], Len(p) + 1)
                    THEN VisitedBelow(Append(p, i), L[i][4]) ELSE {}) :
               i \in 1..Len(L)}

Visited == IF max_depth = 0 THEN {} ELSE VisitedBelow(<<>>, Root)

\* q comes before p in depth-first pre-order.
Before(q, p) ==
    \/ Len(q) < Len(p) /\ q = SubSeq(p, 1, Len(q))
    \/ \E i \in 1..Len(q) :
          /\ i <= Len(p)
          /\ SubSeq(q, 1, i - 1) = SubSeq(p, 1, i - 1)
          /\ q[i] < p[i]

\* The index in lines of the line of position p in pre-order (the root's
\* line is the first).
LineIndex(vis, p) == 2 + Cardinality({q \in vis : Before(q, p)})

PrefixTokens(p) ==
    [i \in 1..(Len(p) - 1) |->
        IF IsLastAt(SubSeq(p, 1, i)) THEN LAST_PREFIX ELSE MID_PREFIX]

\* ---- C3

\* C3: in every directory the walk lists, the lines of its children stand
\* with every directory before every non-directory and, within each of the
\* two groups, in non-decreasing order of the lower-cased name, whatever the
\* order the OS yielded them in; the listing holds each child once.
SortedChildren(d, p, vis) ==
    LET L == Listing(d)
        node(i) == L[i][4]
    IN  /\ Len(L) = Cardinality(Children(fs, d))
        /\ {node(i) : i \in 1..Len(L)} = Children(fs, d)
        /\ \A i, j \in 1..Len(L) :
              i < j =>
                 /\ ~(fs[node(i)].kind # "dir" /\ fs[node(j)].kind = "dir")
                 /\ (fs[node(i)].kind = "dir") = (fs[node(j)].kind = "dir")
                       => ~StrLess(Lower(fs[node(j)].name), Lower(fs[node(i)].name))
                 /\ LineIndex(vis, Append(p, i)) < LineIndex(vis, Append(p, j))
        /\ \A i \in 1..Len(L) :
              LET line == result.lines[LineIndex(vis, Append(p, i))]
              IN  /\ LineLevel(line) = Len(p) + 1
                  /\ SubSeq(LineText(line), 1, Len(fs[node(i)].name)) = fs[node(i)].name

C3_ChildrenSorted ==
    Built =>
       LET vis == Visited
       IN  /\ (max_depth # 0 /\ fs[Root].scan = "ok") => SortedChildren(Root, <<>>, vis)
           /\ \A p \in vis :
                 (Entered(EntryAt(p), Len(p)) /\ fs[EntryAt(p)[4]].scan = "ok")
                    => SortedChildren(EntryAt(p)[4], p, vis)

\* A root listed with a directory "B", a file "a" and a third child, the OS
\* having yielded the file before the directory.
C3_Witness ==
    /\ Built /\ max_depth # 0 /\ fs[Root].scan = "ok"
    /\ Cardinality(Children(fs, Root)) = 3
    /\ \E x, y \in Children(fs, Root) :
          /\ fs[x].kind = "dir" /\ fs[x].name = name_B
          /\ fs[y].kind = "file" /\ fs[y].name = name_a
          /\ \E i, j \in 1..Len(scanned[Root]) :
                i < j /\ scanned[Root][i] = y /\ scanned[Root][j] = x

\* ---- C5

\* The line the rendering policy gives the entry at position p.
PolicyLine(p) ==
    LET e == EntryAt(p)
    IN  (Join(PrefixTokens(p)) \o (IF IsLastAt(p) THEN LAST_CONNECTOR ELSE MID_CONNECTOR))
            \o DisplayName(e[1], e[2], e[3])

\* C5: the line of an entry at level d is d-1 prefix tokens (four spaces
\* where the ancestor at that level was the last of its listing, "│   "
\* otherwise), a connector ("└── " for the last of its listing, "├── "
\* otherwise) and the display name; the lines stand in depth-first
\* pre-order, one for each entry visited, after the root's line.
C5_LineFormat ==
    Built =>
       LET vis == Visited
       IN  /\ Len(result.lines) = 1 + Cardinality(vis)
           /\ \A p \in vis : result.lines[LineIndex(vis, p)] = PolicyLine(p)

\* An entry at level 3 has a line, and so has an entry below a directory
\* that is not the last of its listing.
C5_Witness ==
    /\ Built
    /\ \E p \in Visited : Len(p) = 3
    /\ \E n \in Present :
          /\ LevelOf(n) = 2 /\ n \in Reachable
          /\ \E m \in Children(fs, Root) : m # fs[n].parent /\ fs[m].kind = "file"

\* ---- C6

\* The name a line shows: its text without the suffixes of the display name.
LineName(line) ==
    LET t == LineText(line)
        u == IF EndsWith(t, SYMLINK_SUFFIX)
             THEN SubSeq(t, 1, Len(t) - Len(SYMLINK_SUFFIX)) ELSE t
    IN  IF EndsWith(u, SLASH) THEN SubSeq(u, 1, Len(u) - 1) ELSE u

LinesOf(level, nm) ==
    {k \in 2..Len(result.lines) :
        LineLevel(result.lines[k]) = level /\ LineName(result.lines[k]) = nm}

C7_SymlinksNotFollowed ==
    /\ pc # "call" => result.exc # "RecursionError"
    /\ Built =>
          /\ \A n \in Reachable :
                fs[n].kind = "link" =>
                   \E k \in 2..Len(result.lines) :
                      /\ LineLevel(result.lines[k]) = LevelOf(n)
                      /\ LineText(result.lines[k]) = fs[n].name \o SYMLINK_SUFFIX
          /\ \A k \in 2..Len(result.lines) :
                EndsWith(result.lines[k], SYMLINK_SUFFIX) =>
                   /\ \E n \in Reachable :
                         /\ fs[n].kind = "link" /\ LevelOf(n) = LineLevel(result.lines[k])
                         /\ LineText(result.lines[k]) = fs[n].name \o SYMLINK_SUFFIX
                   /\ k < Len(result.lines)
                         => LineLevel(result.lines[k + 1]) <= LineLevel(result.lines[k])
          /\ Len(result.lines)
                <= 1 + Cardinality(Present) + Cardinality({d \in {Root} \cup Present : fs[d].kind = "dir"})

\* A walk without limit returned from a tree where a symlink points back at
\* the root (a cycle) and the root has another entry after the link.
C7_Witness ==
    /\ Built /\ max_depth = None
    /\ \E n \in Reachable :
          /\ fs[n].kind = "link" /\ fs[n].target = Root
          /\ \E k \in 2..(Len(result.lines) - 1) :
                LineText(result.lines[k]) = fs[n].name \o SYMLINK_SUFFIX

\* ---- C2

\* The tree with directory d readable and empty.
EmptyDir(d) ==
    [n \in DOMAIN fs |->
        IF n = d THEN [fs[n] EXCEPT !.scan = "ok"]
        ELSE IF n # Root /\ d \in Above(n) THEN Absent
        ELSE fs[n]]

RemoveAt(seq, k) == SubSeq(seq, 1, k - 1) \o SubSeq(seq, k + 1, Len(seq))

\* The nested directories the walk comes to list and may not.
NestedDenied == DeniedListed \ {Root}

C4_Deterministic == pc = "returned again" => result = prev.result

\* ---- C8

\* C8: the line of every child the enumeration returned shows its name,
\* then "/" exactly if the child is a directory, then " -> (symlink)"
\* exactly if it is a symlink; and a directory child is entered, depth
\* permitting: the line after its own is the line of one of its children
\* (or of the sentinel) where it has any.
C8_DisplayName ==
    Built =>
       LET vis == Visited
       IN  \A p \in vis :
              LET x == EntryAt(p)[4]
                  k == LineIndex(vis, p)
              IN  x # None =>
                     /\ LineText(result.lines[k]) =
                           (fs[x].name \o (IF fs[x].kind = "dir" THEN SLASH ELSE <<>>))
                              \o (IF fs[x].kind = "link" THEN SYMLINK_SUFFIX ELSE <<>>)
                     /\ ( /\ fs[x].kind = "dir"
                          /\ max_depth = None \/ Len(p) < max_depth
                          /\ Children(fs, x) # {} \/ fs[x].scan = "denied" )
                           => /\ k < Len(result.lines)
                              /\ LineLevel(result.lines[k + 1]) = Len(p) + 1

\* ---- C1

\* C1: a generate action on a root that cannot be enumerated, for want of
\* access or otherwise, gets no line list: build_tree_lines fails, the
\* action returns to the menu and the artifact is as it was.
C1_RootFailurePropagates ==
    (inp.prompt = "depth" /\ inp.exc = "" /\ fs[Root].scan # "ok") =>
       /\ result.exc # ""
       /\ result.lines = <<>>
       /\ pc = "menu"
       /\ ArtifactExists(fs) = existed
       /\ artifact_text = <<>>

\* ---- C9

QUIT == <<113>>

\* C9: at every prompt a failed input() aborts the run: "Aborted." is
\* printed, the status is 1, the tree and the artifact are as they were and
\* nothing happens afterwards; the loop ends with status 0 on choice "q"
\* alone, every other line typed leaves the program running, on its way
\* back to the menu.
C9_Step ==
    /\ pc \in Prompts
    /\ inp'.exc # "" =>
          /\ inp'.exc \in InputFailures /\ inp'.prompt = pc
          /\ printed' = <<"Aborted.">>
          /\ exit_status' = 1
          /\ pc' = "exited"
          /\ UNCHANGED <<fs, artifact_text, result>>
    /\ inp'.exc = "" =>
          IF pc = "menu" /\ Choice(inp'.line) = QUIT
          THEN pc' = "exited" /\ exit_status' = 0 /\ UNCHANGED <<fs, artifact_text>>
          ELSE /\ exit_status' = None
               /\ pc = "menu" => pc' \in {"menu", "depth", "paths"}
               /\ pc = "depth" => pc' \in {"menu", "save"}
               /\ pc \in {"paths", "save"} => pc' = "menu"

C9_AbortOnClosedInput == [][C9_Step]_vars

\* The input fails at "Save txt?", the artifact just written: the run is
\* over with status 1 and the artifact stays.
C9_Witness ==
    /\ pc = "exited" /\ exit_status = 1
    /\ inp.prompt = "save" /\ inp.exc = "KeyboardInterrupt"
    /\ printed = <<"Aborted.">>
    /\ ArtifactExists(fs) /\ ~existed

\* ---- C10

\* The root-level line of the artifact.
ArtifactListed(lines) ==
    \E k \in 2..Len(lines) : LineLevel(lines[k]) = 1 /\ LineText(lines[k]) = ArtifactName

\* C10: the lines of a generate action list the artifact exactly if it was
\* there before the action began and the limit is not 0; after a completed
\* action the artifact is there exactly if the answer was yes or deleting
\* it failed; and the next action with the same limit gives the same lines
\* after a decline, one line more (the artifact's) after a keep.
C10_WriteAfterBuild ==
    /\ pc = "save" => (ArtifactListed(result.lines) <=> (existed /\ max_depth # 0))
    /\ (inp.prompt = "save" /\ inp.exc = "") =>
          (ArtifactExists(fs) <=> (IsYes(inp.line) \/ printed[1] = "Could not delete file"))
    /\ (pc = "save" /\ prev # NoPrev /\ prev.max_depth = max_depth) =>
          IF prev.kept
          THEN /\ Len(result.lines) = Len(prev.result.lines) + 1
               /\ ArtifactListed(result.lines)
          ELSE result.lines = prev.result.lines

====
